---- MODULE Spec2Model ----
(***************************************************************************)
(* Model of github.com/Kolo7/clickhouse-cache (package sqlcache):          *)
(*   - KeyRWLock      : per-key reader/writer lock kept in a sync.Map      *)
(*   - rowsRecorder   : recording decorator over a driver.Rows cursor      *)
(*   - Interceptor    : the cache-aside protocol of Conn/StmtQueryContext  *)
(* Every goroutine is a process p; a call into KeyRWLock is a sequence of  *)
(* atomic steps (one per sync.Map / sync/atomic / sync.RWMutex call).      *)
(***************************************************************************)
EXTENDS Integers, Sequences, FiniteSets, TLC

\* ------------------------------------------------------------------ bounds
NProcs == 3      \* goroutines
NThreads == 2    \* lock clients of Spec
MaxOps == 2      \* acquire/release pairs per lock client
MaxTotalOps == 4 \* acquire/release pairs of all lock clients of ContendSpec
NReq == 2        \* concurrent requests of ReqSpec
NKeys == 2       \* distinct keys (hashes)
MaxLen == 2      \* longest result stream of the execution path
MaxRowsCap == 2  \* largest maxRows attribute

Procs == 1..NProcs
Threads == 1..NThreads
Requests == 1..NReq
Keys == 1..NKeys
Vals == {"a", "b"}          \* row values
ReqKeys == {1}              \* the keys requests hash to
ContendKeys == {1}          \* the key the lock clients of ContendSpec use
\* one entry per key in the map plus one per process that still points at a
\* removed entry; ids of unreferenced entries are reused
EntryIds == 1..(NKeys + NProcs)
NoEntry == 0

VARIABLES
  keyLock,   \* KeyRWLock.keyLock : key -> entry id (NoEntry = absent)
  ent,       \* the timerRwMutex instances: count plus the RWMutex words
  lop,       \* per process: KeyRWLock method being executed
  lpc,       \* per process: position inside that method
  lkey,      \* per process: the key argument
  tRw,       \* per process: local tRw (entry returned by getKeyLock)
  cnt,       \* per process: local count (RLock / Lock)
  hold,      \* per process: entry and mode of the hold its last acquire took
  crashed,   \* runtime fatal error (sync: Unlock of unlocked RWMutex, ...)
  tst,       \* lock client: "idle" | "acq" | "rel"
  ops,       \* lock client: acquires started
  rst,       \* request: position in ConnQueryContext / StmtQueryContext
  rec,       \* request: its rowsRecorder and the cursor it wraps
  res,       \* request: what it returned to the caller
  cache,     \* cache backend: key -> item
  stats,     \* Interceptor.stats
  disabled,  \* Interceptor.disabled
  log        \* observations: execution-path calls per request (execs), a
             \* cache backend call failed (fail, nfail counts them),
             \* conn.QueryContext failed (execFail), why a request bypassed
             \* the cache (why), and whether the backend already held the
             \* key's item when the request started (late)

lockVars == <<keyLock, ent, lop, lpc, lkey, tRw, cnt, hold, crashed>>
thrVars == <<tst, ops>>
reqVars == <<rst, rec, res, cache, stats, disabled, log>>
vars == <<keyLock, ent, lop, lpc, lkey, tRw, cnt, hold, crashed, tst, ops,
          rst, rec, res, cache, stats, disabled, log>>

\* ------------------------------------------------------------ timerRwMutex
\* count: timerRwMutex.count.  The embedded sync.RWMutex is kept as the
\* words the Go runtime keeps: rc readers registered (readerCount without
\* the writer offset), wp writer announced (readerCount negative; the
\* writers' inner mutex w is locked exactly then), rwait = readerWait,
\* wsem / rsem = wake-ups posted on writerSem / readerSem.
timerRwMutex ==
  [count |-> 0, rc |-> 0, wp |-> FALSE, rwait |-> 0, wsem |-> 0, rsem |-> 0]

NoHold == [e |-> NoEntry, mode |-> "none"]

Referenced(e) ==
  \/ \E k \in Keys : keyLock[k] = e
  \/ \E p \in Procs : tRw[p] = e \/ hold[p].e = e

FreeIds == {e \in EntryIds : ~Referenced(e)}

Min(S) == CHOOSE x \in S : \A y \in S : x <= y

\* ------------------------------------------------------------- getKeyLock
\* keyLock.LoadOrStore(key, &tm): the stored entry, or a fresh one with
\* count 0 which is stored.
getKeyLock(p) ==
  /\ ~crashed
  /\ lpc[p] = "get"
  /\ IF keyLock[lkey[p]] # NoEntry
       THEN /\ tRw' = [tRw EXCEPT ![p] = keyLock[lkey[p]]]
            /\ UNCHANGED <<keyLock, ent>>
       ELSE /\ FreeIds # {}
            /\ LET e == Min(FreeIds) IN
                 /\ keyLock' = [keyLock EXCEPT ![lkey[p]] = e]
                 /\ ent' = [ent EXCEPT ![e] = timerRwMutex]
                 /\ tRw' = [tRw EXCEPT ![p] = e]
  /\ lpc' = [lpc EXCEPT ![p] =
               IF lop[p] \in {"RLock", "Lock"} THEN "read" ELSE "add"]
  /\ UNCHANGED <<lop, lkey, cnt, hold, crashed>>

\* ------------------------------------------------------- RLock and Lock
\* count := tRw.count ; RLock re-resolves the key when it reads -1
\* (return k.RLock(key)), Lock has no such test.
ReadCount(p) ==
  /\ ~crashed
  /\ lpc[p] = "read"
  /\ cnt' = [cnt EXCEPT ![p] = ent[tRw[p]].count]
  /\ lpc' = [lpc EXCEPT ![p] =
               IF lop[p] = "RLock" /\ ent[tRw[p]].count = -1
                 THEN "get" ELSE "cas"]
  /\ UNCHANGED <<keyLock, ent, lop, lkey, tRw, hold, crashed>>

\* atomic.CompareAndSwapInt64(&tRw.count, count, count+1)
CasIncrement(p) ==
  /\ ~crashed
  /\ lpc[p] = "cas"
  /\ IF ent[tRw[p]].count = cnt[p]
       THEN /\ ent' = [ent EXCEPT ![tRw[p]].count = cnt[p] + 1]
            /\ hold' = [hold EXCEPT ![p] =
                 [e |-> tRw[p], mode |-> IF lop[p] = "RLock" THEN "R" ELSE "W"]]
            /\ lpc' = [lpc EXCEPT ![p] = "mlock"]
       ELSE /\ lpc' = [lpc EXCEPT ![p] = "read"]
            /\ UNCHANGED <<ent, hold>>
  /\ UNCHANGED <<keyLock, lop, lkey, tRw, cnt, crashed>>

\* tRw.RLock(): register as a reader; sleep on readerSem when a writer is
\* announced.
MutexRLock(p) ==
  /\ ~crashed
  /\ lpc[p] = "mlock" /\ lop[p] = "RLock"
  /\ ent' = [ent EXCEPT ![tRw[p]].rc = @ + 1]
  /\ IF ent[tRw[p]].wp
       THEN /\ lpc' = [lpc EXCEPT ![p] = "rsem"]
            /\ UNCHANGED tRw
       ELSE /\ lpc' = [lpc EXCEPT ![p] = "ret"]
            /\ tRw' = [tRw EXCEPT ![p] = NoEntry]
  /\ UNCHANGED <<keyLock, lop, lkey, cnt, hold, crashed>>

\* the sleeping reader is woken by a writer's Unlock
ReaderWake(p) ==
  /\ ~crashed
  /\ lpc[p] = "rsem"
  /\ ent[tRw[p]].rsem > 0
  /\ ent' = [ent EXCEPT ![tRw[p]].rsem = @ - 1]
  /\ lpc' = [lpc EXCEPT ![p] = "ret"]
  /\ tRw' = [tRw EXCEPT ![p] = NoEntry]
  /\ UNCHANGED <<keyLock, lop, lkey, cnt, hold, crashed>>

\* tRw.Lock(): take the writers' mutex, announce, and sleep on writerSem
\* while readers that registered earlier are still active.
MutexLock(p) ==
  /\ ~crashed
  /\ lpc[p] = "mlock" /\ lop[p] = "Lock"
  /\ ~ent[tRw[p]].wp
  /\ LET m == ent[tRw[p]]
         rw == IF m.rc # 0 THEN m.rwait + m.rc ELSE m.rwait
     IN /\ ent' = [ent EXCEPT ![tRw[p]] = [m EXCEPT !.wp = TRUE, !.rwait = rw]]
        /\ IF m.rc # 0 /\ rw # 0
             THEN /\ lpc' = [lpc EXCEPT ![p] = "wsem"]
                  /\ UNCHANGED tRw
             ELSE /\ lpc' = [lpc EXCEPT ![p] = "ret"]
                  /\ tRw' = [tRw EXCEPT ![p] = NoEntry]
  /\ UNCHANGED <<keyLock, lop, lkey, cnt, hold, crashed>>

\* the sleeping writer is woken by the last departing reader
WriterWake(p) ==
  /\ ~crashed
  /\ lpc[p] = "wsem"
  /\ ent[tRw[p]].wsem > 0
  /\ ent' = [ent EXCEPT ![tRw[p]].wsem = @ - 1]
  /\ lpc' = [lpc EXCEPT ![p] = "ret"]
  /\ tRw' = [tRw EXCEPT ![p] = NoEntry]
  /\ UNCHANGED <<keyLock, lop, lkey, cnt, hold, crashed>>

\* --------------------------------------------------- RUnlock and Unlock
\* atomic.AddInt64(&tRw.count, -1)
AddMinusOne(p) ==
  /\ ~crashed
  /\ lpc[p] = "add"
  /\ ent' = [ent EXCEPT ![tRw[p]].count = @ - 1]
  /\ lpc' = [lpc EXCEPT ![p] = "cas0"]
  /\ UNCHANGED <<keyLock, lop, lkey, tRw, cnt, hold, crashed>>

\* atomic.CompareAndSwapInt64(&tRw.count, 0, -1)
CasRetire(p) ==
  /\ ~crashed
  /\ lpc[p] = "cas0"
  /\ IF ent[tRw[p]].count = 0
       THEN /\ ent' = [ent EXCEPT ![tRw[p]].count = -1]
            /\ lpc' = [lpc EXCEPT ![p] = "del"]
       ELSE /\ lpc' = [lpc EXCEPT ![p] = "munlock"]
            /\ UNCHANGED ent
  /\ UNCHANGED <<keyLock, lop, lkey, tRw, cnt, hold, crashed>>

\* MapDelete without the Delete call
MapDeleteForgotten(p) ==
  /\ ~crashed
  /\ lpc[p] = "del"
  /\ lpc' = [lpc EXCEPT ![p] = "munlock"]
  /\ UNCHANGED <<keyLock, ent, lop, lkey, tRw, cnt, hold, crashed>>

\* k.keyLock.Delete(key)
MapDelete(p) ==
  /\ ~crashed
  /\ lpc[p] = "del"
  /\ keyLock' = [keyLock EXCEPT ![lkey[p]] = NoEntry]
  /\ lpc' = [lpc EXCEPT ![p] = "munlock"]
  /\ UNCHANGED <<ent, lop, lkey, tRw, cnt, hold, crashed>>

\* tRw.RUnlock(): fatal error when no reader is registered; otherwise
\* deregister and, for an announced writer, count down readerWait and wake
\* the writer at zero.
MutexRUnlock(p) ==
  /\ ~crashed
  /\ lpc[p] = "munlock" /\ lop[p] = "RUnlock"
  /\ LET m == ent[tRw[p]] IN
       IF m.rc = 0
         THEN /\ crashed' = TRUE
              /\ UNCHANGED <<ent, lpc, tRw, hold>>
         ELSE /\ ent' = [ent EXCEPT ![tRw[p]] =
                   [m EXCEPT !.rc = m.rc - 1,
                             !.rwait = IF m.wp THEN m.rwait - 1 ELSE m.rwait,
                             !.wsem = IF m.wp /\ m.rwait - 1 = 0
                                        THEN m.wsem + 1 ELSE m.wsem]]
              /\ lpc' = [lpc EXCEPT ![p] = "ret"]
              /\ tRw' = [tRw EXCEPT ![p] = NoEntry]
              /\ hold' = [hold EXCEPT ![p] = NoHold]
              /\ UNCHANGED crashed
  /\ UNCHANGED <<keyLock, lop, lkey, cnt>>

\* tRw.Unlock(): fatal error when no writer is announced; otherwise
\* withdraw the announcement, wake every registered reader and release the
\* writers' mutex.
MutexUnlock(p) ==
  /\ ~crashed
  /\ lpc[p] = "munlock" /\ lop[p] = "Unlock"
  /\ LET m == ent[tRw[p]] IN
       IF ~m.wp
         THEN /\ crashed' = TRUE
              /\ UNCHANGED <<ent, lpc, tRw, hold>>
         ELSE /\ ent' = [ent EXCEPT ![tRw[p]] =
                   [m EXCEPT !.wp = FALSE, !.rsem = m.rsem + m.rc]]
              /\ lpc' = [lpc EXCEPT ![p] = "ret"]
              /\ tRw' = [tRw EXCEPT ![p] = NoEntry]
              /\ hold' = [hold EXCEPT ![p] = NoHold]
              /\ UNCHANGED crashed
  /\ UNCHANGED <<keyLock, lop, lkey, cnt>>

\* one step of whatever KeyRWLock method process p is inside
LockStep(p) ==
  \/ getKeyLock(p)
  \/ ReadCount(p)
  \/ CasIncrement(p)
  \/ MutexRLock(p)
  \/ ReaderWake(p)
  \/ MutexLock(p)
  \/ WriterWake(p)
  \/ AddMinusOne(p)
  \/ CasRetire(p)
  \/ MapDelete(p)
  \/ MutexRUnlock(p)
  \/ MutexUnlock(p)

\* ------------------------------------------------ lock clients (threads)
\* A thread calls RLock(k) or Lock(k), and later the matching RUnlock(k) or
\* Unlock(k), as TestKeyRWLock_Lock does.
Holding(p) == tst[p] = "acq" /\ lpc[p] = "ret"
Released(p) == tst[p] = "idle" \/ (tst[p] = "rel" /\ lpc[p] = "ret")

ThreadAcquire(p, k, m) ==
  /\ ~crashed
  /\ Released(p)
  /\ ops[p] < MaxOps
  /\ tst' = [tst EXCEPT ![p] = "acq"]
  /\ ops' = [ops EXCEPT ![p] = @ + 1]
  /\ lop' = [lop EXCEPT ![p] = m]
  /\ lkey' = [lkey EXCEPT ![p] = k]
  /\ lpc' = [lpc EXCEPT ![p] = "get"]
  /\ UNCHANGED <<keyLock, ent, tRw, cnt, hold, crashed>>
  /\ UNCHANGED reqVars

ThreadRelease(p) ==
  /\ ~crashed
  /\ Holding(p)
  /\ tst' = [tst EXCEPT ![p] = "rel"]
  /\ lop' = [lop EXCEPT ![p] = IF lop[p] = "RLock" THEN "RUnlock" ELSE "Unlock"]
  /\ lpc' = [lpc EXCEPT ![p] = "get"]
  /\ UNCHANGED <<keyLock, ent, lkey, tRw, cnt, hold, crashed, ops>>
  /\ UNCHANGED reqVars

\* ------------------------------------------------------------ cache.Item
\* ok = FALSE is "no item" (Get's found = false).
Columns == <<"c1", "c2">>
NoItem == [ok |-> FALSE, cols |-> <<>>, rows |-> <<>>]

RECURSIVE SeqsUpTo(_, _)
SeqsUpTo(S, n) ==
  IF n = 0 THEN {<<>>}
  ELSE LET T == SeqsUpTo(S, n - 1) IN
         T \cup {Append(t, x) : t \in {u \in T : Len(u) = n - 1}, x \in S}

\* What the underlying driver.Rows can do: each Next yields a row or fails
\* with an error, and after the last element Next reports io.EOF.
Scripts == SeqsUpTo(Vals \cup {"ERR"}, MaxLen)
ReqScripts == {<<>>, <<"a">>, <<"ERR">>}
\* the maxRows attributes getAttrs can return
Caps == 0..MaxRowsCap
ReqCaps == {1}

\* ---------------------------------------------------------- rowsRecorder
\* newRowsRecorder(setter, rows, maxRows, done).  script / failClose are the
\* wrapped cursor dr (src: what dr holds when it is wrapped, script: what it
\* has yet to yield); dest is the caller's row buffer; hist is what the Next
\* calls returned; colCalls, closed, sets and committed observe the
\* Columns calls, Close and the setter.
newRowsRecorder(script, failClose, maxRows) ==
  [cols |-> <<>>, rows |-> <<>>, gotErr |-> FALSE, gotEOF |-> FALSE,
   maxRowsHit |-> FALSE, maxRows |-> maxRows, done |-> 0,
   script |-> script, src |-> script, failClose |-> failClose, dest |-> "a",
   hist |-> <<>>, colCalls |-> 0, closed |-> "no", sets |-> 0,
   committed |-> NoItem]

NoRecorder == newRowsRecorder(<<>>, FALSE, 0)

\* rowsRecorder.Columns
RecorderColumns(r) == [r EXCEPT !.cols = Columns]

\* r.dr.Next(dest): the error it returns ("nil" for a row)
DrNext(r) ==
  IF r.script = <<>> THEN "EOF"
  ELSE IF Head(r.script) = "ERR" THEN "ERR" ELSE "nil"

\* RecorderNext that appends dest itself instead of a copy: every buffered
\* row aliases the caller's buffer and shows its latest contents
RecorderNextNoCopy(r) ==
  LET err == DrNext(r)
      dest == IF err = "nil" THEN Head(r.script) ELSE r.dest
      r1 == [r EXCEPT !.script = IF r.script = <<>> THEN <<>> ELSE Tail(r.script),
                      !.dest = dest,
                      !.hist = Append(r.hist, IF err = "nil" THEN dest ELSE err),
                      !.gotEOF = r.gotEOF \/ err = "EOF",
                      !.gotErr = r.gotErr \/ err = "ERR"]
  IN IF r1.gotEOF \/ r1.gotErr \/ r1.maxRowsHit THEN r1
     ELSE IF Len(r1.rows) = r1.maxRows THEN [r1 EXCEPT !.maxRowsHit = TRUE]
     ELSE [r1 EXCEPT !.rows = [i \in 1..(Len(r1.rows) + 1) |-> dest]]

\* RecorderNext that stops buffering at the cap without recording that the
\* cap was hit
RecorderNextCapSilent(r) ==
  LET err == DrNext(r)
      dest == IF err = "nil" THEN Head(r.script) ELSE r.dest
      r1 == [r EXCEPT !.script = IF r.script = <<>> THEN <<>> ELSE Tail(r.script),
                      !.dest = dest,
                      !.hist = Append(r.hist, IF err = "nil" THEN dest ELSE err),
                      !.gotEOF = r.gotEOF \/ err = "EOF",
                      !.gotErr = r.gotErr \/ err = "ERR"]
  IN IF r1.gotEOF \/ r1.gotErr \/ r1.maxRowsHit THEN r1
     ELSE IF Len(r1.rows) = r1.maxRows THEN r1
     ELSE [r1 EXCEPT !.rows = Append(r1.rows, dest)]

\* rowsRecorder.Next
RecorderNext(r) ==
  LET err == DrNext(r)
      dest == IF err = "nil" THEN Head(r.script) ELSE r.dest
      r1 == [r EXCEPT !.script = IF r.script = <<>> THEN <<>> ELSE Tail(r.script),
                      !.dest = dest,
                      !.hist = Append(r.hist, IF err = "nil" THEN dest ELSE err),
                      !.gotEOF = r.gotEOF \/ err = "EOF",
                      !.gotErr = r.gotErr \/ err = "ERR"]
  IN IF r1.gotEOF \/ r1.gotErr \/ r1.maxRowsHit THEN r1
     ELSE IF Len(r1.rows) = r1.maxRows THEN [r1 EXCEPT !.maxRowsHit = TRUE]
     ELSE [r1 EXCEPT !.rows = Append(r1.rows, dest)]

\* ShouldCommit without the maxRowsHit test
ShouldCommitIgnoringCap(r) == r.gotEOF /\ ~r.gotErr

\* the test of rowsRecorder.Close before r.setter(r.item)
ShouldCommit(r) == r.gotEOF /\ ~r.gotErr /\ ~r.maxRowsHit

\* ----------------------------------------------------------- Interceptor
\* Cache.Get as checkCache sees it: g = "err" is a backend failure
CacheGet(k, g) ==
  IF g = "err" THEN "err" ELSE IF cache[k].ok THEN "hit" ELSE "miss"

\* checkCacheStats that counts a failed Get as a miss
checkCacheStatsErrAsMiss(st, out) ==
  IF out = "hit" THEN [st EXCEPT !.Hits = @ + 1]
  ELSE [st EXCEPT !.Misses = @ + 1]

\* the counters checkCache moves
checkCacheStats(st, out) ==
  IF out = "err" THEN [st EXCEPT !.Errors = @ + 1]
  ELSE IF out = "miss" THEN [st EXCEPT !.Misses = @ + 1]
  ELSE [st EXCEPT !.Hits = @ + 1]

NoResult == [kind |-> "none", item |-> NoItem]

\* call of a KeyRWLock method by process p
CallLock(p, m, k) ==
  /\ lop' = [lop EXCEPT ![p] = m]
  /\ lkey' = [lkey EXCEPT ![p] = k]
  /\ lpc' = [lpc EXCEPT ![p] = "get"]
  /\ UNCHANGED <<keyLock, ent, tRw, cnt, hold, crashed>>

\* ReqStart without the test of i.disabled
ReqStartIgnoresDisabled(p, k, attrs, maxRows, hashOK) ==
  /\ ~crashed
  /\ rst[p] = "idle"
  /\ IF ~attrs \/ ~hashOK
       THEN /\ rst' = [rst EXCEPT ![p] = "bypass"]
            /\ res' = [res EXCEPT ![p] = [kind |-> "bypass", item |-> NoItem]]
            /\ stats' = IF attrs /\ ~hashOK
                          THEN [stats EXCEPT !.Errors = @ + 1] ELSE stats
            /\ log' = [log EXCEPT !.execs[p] = @ + 1,
                                  !.why[p] = IF ~attrs THEN "noattrs"
                                             ELSE "hash"]
            /\ UNCHANGED <<lockVars, rec>>
       ELSE /\ rst' = [rst EXCEPT ![p] = "rlock"]
            /\ rec' = [rec EXCEPT ![p] = [NoRecorder EXCEPT !.maxRows = maxRows]]
            /\ CallLock(p, "RLock", k)
            /\ log' = [log EXCEPT !.late[p] = cache[k].ok]
            /\ UNCHANGED <<res, stats>>
  /\ UNCHANGED <<thrVars, cache, disabled>>

\* ReqStart that does not count a failed hashFunc
ReqStartHashUncounted(p, k, attrs, maxRows, hashOK) ==
  /\ ~crashed
  /\ rst[p] = "idle"
  /\ IF disabled \/ ~attrs \/ ~hashOK
       THEN /\ rst' = [rst EXCEPT ![p] = "bypass"]
            /\ res' = [res EXCEPT ![p] = [kind |-> "bypass", item |-> NoItem]]
            /\ stats' = stats
            /\ log' = [log EXCEPT !.execs[p] = @ + 1,
                                  !.why[p] = IF disabled THEN "disabled"
                                             ELSE IF ~attrs THEN "noattrs"
                                             ELSE "hash"]
            /\ UNCHANGED <<lockVars, rec>>
       ELSE /\ rst' = [rst EXCEPT ![p] = "rlock"]
            /\ rec' = [rec EXCEPT ![p] = [NoRecorder EXCEPT !.maxRows = maxRows]]
            /\ CallLock(p, "RLock", k)
            /\ log' = [log EXCEPT !.late[p] = cache[k].ok]
            /\ UNCHANGED <<res, stats>>
  /\ UNCHANGED <<thrVars, cache, disabled>>

\* ConnQueryContext up to i.RLock(hash): the disabled test, getAttrs,
\* hashFunc.  attrs = FALSE: no caching directive; hashOK = FALSE: hashFunc
\* fails.  A bypass calls conn.QueryContext and returns its result.
ReqStart(p, k, attrs, maxRows, hashOK) ==
  /\ ~crashed
  /\ rst[p] = "idle"
  /\ IF disabled \/ ~attrs \/ ~hashOK
       THEN /\ rst' = [rst EXCEPT ![p] = "bypass"]
            /\ res' = [res EXCEPT ![p] = [kind |-> "bypass", item |-> NoItem]]
            /\ stats' = IF ~disabled /\ attrs /\ ~hashOK
                          THEN [stats EXCEPT !.Errors = @ + 1] ELSE stats
            /\ log' = [log EXCEPT !.execs[p] = @ + 1,
                                  !.why[p] = IF disabled THEN "disabled"
                                             ELSE IF ~attrs THEN "noattrs"
                                             ELSE "hash"]
            /\ UNCHANGED <<lockVars, rec>>
       ELSE /\ rst' = [rst EXCEPT ![p] = "rlock"]
            /\ rec' = [rec EXCEPT ![p] = [NoRecorder EXCEPT !.maxRows = maxRows]]
            /\ CallLock(p, "RLock", k)
            /\ log' = [log EXCEPT !.late[p] = cache[k].ok]
            /\ UNCHANGED <<res, stats>>
  /\ UNCHANGED <<thrVars, cache, disabled>>

\* checkCache under the read hold, then i.RUnlock(hash)
CheckCache1(p, g) ==
  /\ ~crashed
  /\ rst[p] = "rlock" /\ lpc[p] = "ret"
  /\ LET out == CacheGet(lkey[p], g) IN
       /\ stats' = checkCacheStats(stats, out)
       /\ log' = [log EXCEPT !.fail = @ \/ out = "err",
                             !.nfail = IF out = "err" THEN @ + 1 ELSE @]
       /\ IF out = "hit"
            THEN /\ rst' = [rst EXCEPT ![p] = "hit1"]
                 /\ res' = [res EXCEPT ![p] =
                              [kind |-> "cached", item |-> cache[lkey[p]]]]
            ELSE /\ rst' = [rst EXCEPT ![p] = "miss1"]
                 /\ UNCHANGED res
  /\ CallLock(p, "RUnlock", lkey[p])
  /\ UNCHANGED <<thrVars, rec, cache, disabled>>

\* i.Lock(hash) after the read hold is released
UpgradeLock(p) ==
  /\ ~crashed
  /\ rst[p] = "miss1" /\ lpc[p] = "ret"
  /\ rst' = [rst EXCEPT ![p] = "lock"]
  /\ CallLock(p, "Lock", lkey[p])
  /\ UNCHANGED <<thrVars, rec, res, cache, stats, disabled, log>>

\* checkCache under the write hold; a hit releases it, a miss calls
\* conn.QueryContext
CheckCache2(p, g) ==
  /\ ~crashed
  /\ rst[p] = "lock" /\ lpc[p] = "ret"
  /\ LET out == CacheGet(lkey[p], g) IN
       /\ stats' = checkCacheStats(stats, out)
       /\ log' = [log EXCEPT !.fail = @ \/ out = "err",
                             !.nfail = IF out = "err" THEN @ + 1 ELSE @,
                             !.execs[p] = IF out = "hit" THEN @ ELSE @ + 1]
       /\ IF out = "hit"
            THEN /\ rst' = [rst EXCEPT ![p] = "hit2"]
                 /\ res' = [res EXCEPT ![p] =
                              [kind |-> "cached", item |-> cache[lkey[p]]]]
                 /\ CallLock(p, "Unlock", lkey[p])
            ELSE /\ rst' = [rst EXCEPT ![p] = "exec"]
                 /\ UNCHANGED <<res, lockVars>>
  /\ UNCHANGED <<thrVars, rec, cache, disabled>>

\* conn.QueryContext returns: an error releases the write hold; a cursor is
\* wrapped in a recorder and the waiter goroutine parks on done
ExecReturn(p, ok, script, failClose) ==
  /\ ~crashed
  /\ rst[p] = "exec"
  /\ IF ok
       THEN /\ rst' = [rst EXCEPT ![p] = "stream"]
            /\ rec' = [rec EXCEPT ![p] =
                         newRowsRecorder(script, failClose, rec[p].maxRows)]
            /\ res' = [res EXCEPT ![p] = [kind |-> "live", item |-> NoItem]]
            /\ UNCHANGED lockVars
       ELSE /\ rst' = [rst EXCEPT ![p] = "execerr"]
            /\ res' = [res EXCEPT ![p] = [kind |-> "error", item |-> NoItem]]
            /\ log' = [log EXCEPT !.execFail = TRUE]
            /\ CallLock(p, "Unlock", lkey[p])
            /\ UNCHANGED rec
  /\ IF ok THEN UNCHANGED log ELSE TRUE
  /\ UNCHANGED <<thrVars, cache, stats, disabled>>

\* the caller calls Columns() on the recorder
Cols(p) ==
  /\ ~crashed
  /\ rst[p] = "stream"
  /\ rec' = [rec EXCEPT ![p] = [RecorderColumns(rec[p]) EXCEPT !.colCalls = 1]]
  /\ UNCHANGED <<lockVars, thrVars, rst, res, cache, stats, disabled, log>>

\* the caller calls Next(dest) on the recorder, until it has seen io.EOF
NextRow(p) ==
  /\ ~crashed
  /\ rst[p] = "stream"
  /\ \A i \in DOMAIN rec[p].hist : rec[p].hist[i] # "EOF"
  /\ rec' = [rec EXCEPT ![p] = RecorderNext(rec[p])]
  /\ UNCHANGED <<lockVars, thrVars, rst, res, cache, stats, disabled, log>>

\* the caller calls Close() on the recorder.  setOK = FALSE: Cache.Set
\* fails in cacheSetter.  After close(done) the waiter goroutine calls
\* i.Unlock(hash); when dr.Close fails Close returns before close(done) and
\* the waiter stays parked.
Close(p, setOK) ==
  /\ ~crashed
  /\ rst[p] = "stream"
  /\ LET r == rec[p] IN
       IF r.failClose
         THEN /\ rec' = [rec EXCEPT ![p] = [r EXCEPT !.gotErr = TRUE, !.closed = "err"]]
              /\ rst' = [rst EXCEPT ![p] = "closefail"]
              /\ UNCHANGED <<lockVars, cache, stats, log>>
         ELSE /\ rec' = [rec EXCEPT ![p] =
                   [r EXCEPT !.closed = "ok", !.done = r.done + 1,
                             !.sets = IF ShouldCommit(r) THEN r.sets + 1 ELSE r.sets,
                             !.committed = IF ShouldCommit(r)
                                THEN [ok |-> TRUE, cols |-> r.cols, rows |-> r.rows]
                                ELSE r.committed]]
              /\ rst' = [rst EXCEPT ![p] = "closed"]
              /\ IF ShouldCommit(r)
                   THEN IF setOK
                          THEN /\ cache' = [cache EXCEPT ![lkey[p]] =
                                    [ok |-> TRUE, cols |-> r.cols, rows |-> r.rows]]
                               /\ UNCHANGED <<stats, log>>
                          ELSE /\ stats' = [stats EXCEPT !.Errors = @ + 1]
                               /\ log' = [log EXCEPT !.fail = TRUE, !.nfail = @ + 1]
                               /\ UNCHANGED cache
                   ELSE /\ setOK
                        /\ UNCHANGED <<cache, stats, log>>
              /\ CallLock(p, "Unlock", lkey[p])
  /\ UNCHANGED <<thrVars, res, disabled>>

\* Interceptor.Enable / Interceptor.Disable
Enable ==
  /\ ~crashed
  /\ disabled
  /\ disabled' = FALSE
  /\ UNCHANGED <<lockVars, thrVars, rst, rec, res, cache, stats, log>>

Disable ==
  /\ ~crashed
  /\ ~disabled
  /\ disabled' = TRUE
  /\ UNCHANGED <<lockVars, thrVars, rst, rec, res, cache, stats, log>>

\* -------------------------------------------------------- specifications
LockInit ==
  /\ keyLock = [k \in Keys |-> NoEntry]
  /\ ent = [e \in EntryIds |-> timerRwMutex]
  /\ lop = [p \in Procs |-> "none"]
  /\ lpc = [p \in Procs |-> "idle"]
  /\ lkey = [p \in Procs |-> 1]
  /\ tRw = [p \in Procs |-> NoEntry]
  /\ cnt = [p \in Procs |-> 0]
  /\ hold = [p \in Procs |-> NoHold]
  /\ crashed = FALSE

\* NewInterceptor: empty lock map, zero stats, enabled; the cache is empty
Init ==
  /\ LockInit
  /\ tst = [p \in Procs |-> "idle"]
  /\ ops = [p \in Procs |-> 0]
  /\ rst = [p \in Procs |-> "idle"]
  /\ rec = [p \in Procs |-> NoRecorder]
  /\ res = [p \in Procs |-> NoResult]
  /\ cache = [k \in Keys |-> NoItem]
  /\ stats = [Hits |-> 0, Misses |-> 0, Errors |-> 0]
  /\ disabled = FALSE
  /\ log = [execs |-> [p \in Procs |-> 0], fail |-> FALSE, execFail |-> FALSE,
            nfail |-> 0, why |-> [p \in Procs |-> "none"],
            late |-> [p \in Procs |-> FALSE]]

\* KeyRWLock used directly by concurrent threads, on any keys
Next ==
  \/ \E p \in Threads : LockStep(p) /\ UNCHANGED <<thrVars, reqVars>>
  \/ \E p \in Threads, k \in Keys, m \in {"RLock", "Lock"} : ThreadAcquire(p, k, m)
  \/ \E p \in Threads : ThreadRelease(p)

Spec == Init /\ [][Next]_vars

RECURSIVE SumOps(_)
SumOps(S) == IF S = {} THEN 0 ELSE LET p == Min(S) IN ops[p] + SumOps(S \ {p})

\* KeyRWLock used by every goroutine on one contended key
ContendNext ==
  \/ \E p \in Procs : LockStep(p) /\ UNCHANGED <<thrVars, reqVars>>
  \/ \E p \in Procs, k \in ContendKeys, m \in {"RLock", "Lock"} :
       SumOps(Procs) < MaxTotalOps /\ ThreadAcquire(p, k, m)
  \/ \E p \in Procs : ThreadRelease(p)

ContendSpec == Init /\ [][ContendNext]_vars

\* one step of request p (its own goroutine, the caller driving the
\* returned cursor, or its waiter goroutine)
ReqStep(p, scripts, caps) ==
  \/ LockStep(p) /\ UNCHANGED <<thrVars, reqVars>>
  \/ \E k \in ReqKeys, attrs \in BOOLEAN, m \in caps, hashOK \in BOOLEAN :
       ReqStart(p, k, attrs, m, hashOK)
  \/ \E g \in {"ok", "err"} : CheckCache1(p, g)
  \/ UpgradeLock(p)
  \/ \E g \in {"ok", "err"} : CheckCache2(p, g)
  \/ \E ok \in BOOLEAN, s \in scripts, fc \in BOOLEAN : ExecReturn(p, ok, s, fc)
  \/ Cols(p)
  \/ NextRow(p)
  \/ \E setOK \in BOOLEAN : Close(p, setOK)

\* concurrent requests through the interceptor
ReqNext == \E p \in Requests : ReqStep(p, ReqScripts, ReqCaps)

ReqSpec == Init /\ [][ReqNext]_vars

\* one request whose cursor can be any script
RecNext == ReqStep(1, Scripts, Caps)

RecSpec == Init /\ [][RecNext]_vars

\* one step of a cacheable request for key 1 with nothing failing: the
\* backend answers, the query succeeds with an empty result, the caller
\* drains and closes it
LateStep(p) ==
  \/ LockStep(p) /\ UNCHANGED <<thrVars, reqVars>>
  \/ CheckCache1(p, "ok")
  \/ UpgradeLock(p)
  \/ CheckCache2(p, "ok")
  \/ ExecReturn(p, TRUE, <<>>, FALSE)
  \/ NextRow(p)
  \/ Close(p, TRUE)

\* requests 1 and 2 start at any time, request 3 only once the backend
\* holds the committed item
LateNext ==
  \/ \E p \in {1, 2} : ReqStart(p, 1, TRUE, 1, TRUE)
  \/ cache[1].ok /\ ReqStart(3, 1, TRUE, 1, TRUE)
  \/ \E p \in Procs : LateStep(p)

LateSpec == Init /\ [][LateNext]_vars

\* request 1 at any time, request 2 only while the interceptor is disabled,
\* and Enable / Disable calls at any time.  i.disabled is a plain bool read
\* and written without synchronisation: a read that races with a write
\* sees the old or the new value, which is the read taking place before or
\* after the Disable / Enable step.
ToggleNext ==
  \/ ReqStep(1, ReqScripts, ReqCaps)
  \/ /\ disabled
     /\ \E k \in ReqKeys, attrs \in BOOLEAN, m \in ReqCaps, hashOK \in BOOLEAN :
          ReqStart(2, k, attrs, m, hashOK)
  \/ Enable
  \/ Disable

ToggleSpec == Init /\ [][ToggleNext]_vars

\* the lock clients of ContendSpec under the scheduler's fairness: a
\* goroutine that can take a step eventually takes it, and a holder
\* eventually calls its release
FairContendSpec ==
  /\ ContendSpec
  /\ \A p \in Procs : WF_vars(LockStep(p) /\ UNCHANGED <<thrVars, reqVars>>)
  /\ \A p \in Procs : WF_vars(ThreadRelease(p))

\* ================================================================ claims
Acquiring(p) == tst[p] = "acq" /\ lpc[p] # "ret"
HoldsKey(p, k) == Holding(p) /\ lkey[p] = k
Quiescent == \A p \in Procs : Released(p)

\* C3: while a thread has returned from Lock(k) and has not yet called
\* Unlock(k), no other thread has returned from Lock(k) or RLock(k) and not
\* yet called its release.
C3_WriterExcludesAll ==
  \A p, q \in Procs : \A k \in Keys :
    (p # q /\ HoldsKey(p, k) /\ lop[p] = "Lock") => ~HoldsKey(q, k)

\* C4: a thread that has incremented an entry's count and waits for or
\* holds its mutex (its release not yet called) finds that entry stored in
\* the map under its key; in particular no acquirer increments a retired
\* entry.
C4_HeldEntryIsInMap ==
  \A p \in Procs :
    (tst[p] = "acq" /\ hold[p].e # NoEntry /\ lpc[p] \in {"mlock", "rsem", "wsem", "ret"})
      => keyLock[lkey[p]] = hold[p].e

\* C5: in a quiescent state (every acquire matched by a returned release,
\* no call in progress) the map holds no entry for any key.
C5_Reclaimed == Quiescent => \A k \in Keys : keyLock[k] = NoEntry

\* all clients have released, after contending for key 1 with read and
\* write holds
C5_Witness ==
  /\ Quiescent
  /\ SumOps(Procs) = MaxTotalOps
  /\ \A p \in Procs : ops[p] > 0
  /\ \E p \in Procs : lop[p] = "Unlock"
  /\ \E p \in Procs : lop[p] = "RUnlock"

\* C6 as a temporal property of FairContendSpec: every RLock(k) / Lock(k)
\* call returns.
AcquireReturns == \A p \in Procs : Acquiring(p) ~> Holding(p)

\* some goroutine can take a step of a KeyRWLock method or call a release
CanProgress ==
  \E q \in Procs :
    \/ ENABLED (LockStep(q) /\ UNCHANGED <<thrVars, reqVars>>)
    \/ ENABLED ThreadRelease(q)

\* C6: every RLock(k) / Lock(k) call returns.  As a safety property: while
\* the process is alive and an RLock / Lock call has not returned, some
\* goroutine can still take a step (otherwise the call never returns).
C6_NoAcquireStuck ==
  \A p \in Procs : (Acquiring(p) /\ ~crashed) => CanProgress

\* a process that cannot take its next step inside RLock / Lock
Blocked(p) ==
  \/ lpc[p] = "mlock" /\ lop[p] = "Lock" /\ ent[tRw[p]].wp
  \/ lpc[p] = "rsem" /\ ent[tRw[p]].rsem = 0
  \/ lpc[p] = "wsem" /\ ent[tRw[p]].wsem = 0

\* q has a hold on p's key, or waits for one, or has not finished releasing
\* it, and one of the two is a writer
Conflicts(q, p) ==
  /\ q # p
  /\ lkey[q] = lkey[p]
  /\ hold[q].e # NoEntry
  /\ hold[q].mode = "W" \/ hold[p].mode = "W"

\* C7: an acquire is blocked only by a conflicting hold on the same key:
\* never by holds on another key, and a reader never by other readers.
C7_BlockedOnlyByConflict ==
  \A p \in Procs : Blocked(p) => \E q \in Procs : Conflicts(q, p)

\* ------------------------------------------------- requests and recorder
\* a request is executing from its call of conn.QueryContext until the
\* Unlock that follows the Close of its recorder has returned
Executing(p) ==
  \/ rst[p] \in {"exec", "stream", "closefail"}
  \/ rst[p] = "closed" /\ lpc[p] # "ret"

\* C1: at most one request per key is executing.
C1_AtMostOneExecuting ==
  \A p, q \in Requests :
    (p # q /\ lkey[p] = lkey[q] /\ Executing(p)) => ~Executing(q)

Has(h, x) == \E i \in DOMAIN h : h[i] = x
IsRow(x) == x \in Vals
RowsOf(h) == SelectSeq(h, IsRow)

\* the caller saw end-of-stream, no error, and at most maxRows rows
DrainedClean(r) ==
  /\ Has(r.hist, "EOF")
  /\ ~Has(r.hist, "ERR")
  /\ Len(RowsOf(r.hist)) <= r.maxRows

Settled(p) ==
  \/ rst[p] \in {"hit1", "hit2"}
  \/ rst[p] = "closed" /\ DrainedClean(rec[p])

RECURSIVE SumExecs(_)
SumExecs(S) ==
  IF S = {} THEN 0 ELSE LET p == Min(S) IN log.execs[p] + SumExecs(S \ {p})

\* C2: when all N requests for the key have finished, without backend
\* failure and with every live stream drained cleanly and closed, the
\* execution path was invoked exactly once and every other request returned
\* the item that execution committed.
C2_Stampede ==
  ((\A p \in Requests : Settled(p)) /\ ~log.fail) =>
     /\ SumExecs(Requests) = 1
     /\ \A p, q \in Requests :
          (res[p].kind = "cached" /\ res[q].kind = "live")
             => res[p].item = rec[q].committed

\* C8: once Close has returned, on any path, done has been closed exactly
\* once.
C8_DoneOnEveryPath ==
  \A p \in Requests : rec[p].closed # "no" => rec[p].done = 1

\* C9: after a Close whose underlying Close succeeded, the setter has been
\* invoked (once) iff some Next returned end-of-stream, none returned an
\* error and no more than maxRows rows were yielded; otherwise nothing is
\* written to the cache.
C9_CommitIff ==
  \A p \in Requests :
    rec[p].closed = "ok" =>
      /\ rec[p].sets = (IF DrainedClean(rec[p]) THEN 1 ELSE 0)
      /\ rec[p].sets = 0 => cache[lkey[p]] = NoItem /\ rec[p].committed = NoItem

\* a commit after rows were read, and a Close that discards a capped capture
C9_Witness ==
  \E p \in Requests :
    /\ rec[p].closed = "ok" /\ rec[p].sets = 1
    /\ Len(RowsOf(rec[p].hist)) = 2

Produced(r) == Append(r.src, "EOF")

\* C11: when the wrapped cursor holds more rows than the cap, no sequence of
\* Next calls followed by Close commits an item (the setter is not called,
\* nothing is written to the cache), and the Next calls have returned to the
\* caller exactly what the cursor produced, in order.
C11_CapSuppressesCommit ==
  \A p \in Requests :
    (rec[p].closed # "no" /\ Len(RowsOf(rec[p].src)) > rec[p].maxRows) =>
      /\ rec[p].sets = 0
      /\ rec[p].committed = NoItem
      /\ cache[lkey[p]] = NoItem
      /\ Len(rec[p].hist) <= Len(Produced(rec[p]))
      /\ rec[p].hist = SubSeq(Produced(rec[p]), 1, Len(rec[p].hist))

\* a cursor of two rows under a cap of one was drained to io.EOF and closed
C11_Witness ==
  \E p \in Requests :
    /\ rec[p].closed = "ok" /\ rec[p].maxRows = 1
    /\ rec[p].hist = <<"a", "b", "EOF">>
    /\ Len(rec[p].rows) = 1

\* C12: a request whose execution path failed returns the error, never
\* calls Set, and its i.Unlock(hash) releases the write hold the request
\* took: the entry it unlocks is the entry it write-locked, which is still
\* write-locked, so the Unlock returns and leaves the key free.
C12_ExecErrorReleases ==
  \A p \in Requests :
    rst[p] = "execerr" =>
      /\ res[p].kind = "error"
      /\ rec[p].sets = 0 /\ rec[p].closed = "no"
      /\ lpc[p] = "munlock" => (tRw[p] = hold[p].e /\ ent[tRw[p]].wp)
      /\ lpc[p] = "ret" => hold[p] = NoHold

\* C13: once Close has returned nil, the waiter's i.Unlock(hash) releases
\* the write hold the request took: it can always take its next step, the
\* entry it unlocks is the entry the request write-locked, and when it
\* returns the request holds nothing.  This is so whether the capture was
\* committed (Set succeeding or failing) or discarded; after a Next error
\* or an early Close the setter was not called.
C13_CloseReleases ==
  \A p \in Requests :
    rst[p] = "closed" =>
      /\ lpc[p] = "munlock" => (tRw[p] = hold[p].e /\ ent[tRw[p]].wp)
      /\ lpc[p] = "ret" => hold[p] = NoHold
      /\ (lpc[p] # "ret" /\ ~crashed) =>
            ENABLED (LockStep(p) /\ UNCHANGED <<thrVars, reqVars>>)
      /\ (Has(rec[p].hist, "ERR") \/ ~Has(rec[p].hist, "EOF")) =>
            (rec[p].sets = 0 /\ rec[p].committed = NoItem)

\* C14: a request that starts when the backend already holds the committed
\* item of its key (no backend call failing) never calls the execution
\* path and returns the item an earlier Close committed: it gets no further
\* than its first check, and the process does not die before it has
\* returned and released its read hold.
C14_LaterRequestHits ==
  \A q \in Procs :
    (log.late[q] /\ ~log.fail) =>
      /\ rst[q] \in {"rlock", "hit1"}
      /\ log.execs[q] = 0
      /\ crashed => (rst[q] = "hit1" /\ lpc[q] = "ret")
      /\ rst[q] = "hit1" =>
            /\ res[q].kind = "cached"
            /\ \E p \in Procs \ {q} :
                 rec[p].sets = 1 /\ res[q].item = rec[p].committed

\* no request but p has started
Alone(p) == \A q \in Procs \ {p} : rst[q] = "idle"

\* C15: with a backend that does not fail, a request counts one event: a
\* hit (at either check) adds one to Hits and nothing to Misses; a request
\* that misses both checks and goes to the execution path adds exactly one
\* to Misses and nothing to Hits.  Stated for a request that runs alone, so
\* that the counters show its contribution.
C15_OneEventPerRequest ==
  \A p \in Requests :
    (Alone(p) /\ ~log.fail) =>
      /\ rst[p] \in {"hit1", "hit2"} =>
            (stats.Hits = 1 /\ stats.Misses = 0)
      /\ rst[p] \in {"exec", "stream", "execerr", "closed", "closefail"} =>
            (stats.Misses = 1 /\ stats.Hits = 0)

\* C16: failures of the cache backend never reach the caller and each one
\* adds one to Errors.  For a request that runs alone: Errors is the number
\* of failed Get / Set calls (plus one for a failed hashFunc); the only
\* error a request returns is the execution path's; after a failed Get the
\* request goes on as on a miss and returns the execution path's result;
\* a Close whose Set failed returns nil and closes done.
C16_BackendFailuresHidden ==
  \A p \in Requests :
    Alone(p) =>
      /\ stats.Errors = log.nfail + (IF log.why[p] = "hash" THEN 1 ELSE 0)
      /\ res[p].kind = "error" => (log.execFail /\ rst[p] = "execerr")
      /\ rst[p] \in {"stream", "closed", "closefail"} => res[p].kind = "live"
      /\ log.nfail > 0 => rst[p] \notin {"hit1", "hit2", "bypass"}
      /\ (rec[p].sets = 1 /\ ~cache[lkey[p]].ok) =>
            (rec[p].closed = "ok" /\ rec[p].done = 1 /\ rst[p] = "closed")

\* Get failed at both checks, the request executed and returned the live
\* stream, and the Set of its Close failed too: three errors counted
C16_Witness ==
  \E p \in Requests :
    /\ Alone(p) /\ log.nfail = 3 /\ stats.Errors = 3
    /\ res[p].kind = "live" /\ rec[p].closed = "ok"
    /\ rec[p].sets = 1 /\ ~cache[lkey[p]].ok

\* C17: a request whose hashFunc fails calls the execution path exactly
\* once and returns its result unwrapped, adds one to Errors and nothing to
\* Hits and Misses, calls no KeyRWLock method (the map stays empty, no
\* hold is taken) and calls neither Get nor Set.  Stated for a request
\* that runs alone.
C17_HashErrorBypasses ==
  \A p \in Requests :
    (Alone(p) /\ log.why[p] = "hash") =>
      /\ rst[p] = "bypass" /\ res[p].kind = "bypass"
      /\ log.execs[p] = 1
      /\ stats = [Hits |-> 0, Misses |-> 0, Errors |-> 1]
      /\ lop[p] = "none" /\ hold[p] = NoHold
      /\ \A k \in Keys : keyLock[k] = NoEntry /\ cache[k] = NoItem
      /\ log.nfail = 0 /\ rec[p] = NoRecorder

\* a request has returned after its hashFunc failed
C17_Witness ==
  \E p \in Requests :
    log.why[p] = "hash" /\ rst[p] = "bypass" /\ stats.Errors = 1

\* a request starts while the interceptor is disabled: it is a passthrough
\* that calls the execution path once and leaves the lock map, the cache
\* and the counters as they were
DisabledStartIsPassthrough ==
  \A p \in Requests :
    (disabled /\ rst[p] = "idle" /\ rst'[p] # "idle") =>
      /\ rst'[p] = "bypass" /\ res'[p].kind = "bypass"
      /\ log'.execs[p] = log.execs[p] + 1
      /\ keyLock' = keyLock /\ ent' = ent /\ hold' = hold
      /\ cache' = cache /\ stats' = stats

\* a request that passed its disabled test goes on whatever i.disabled
\* becomes: its Close commits exactly when the stream was drained cleanly,
\* and the Unlock after Close releases the hold the request took
InFlightUnaffected ==
  \A p \in Requests :
    /\ rst[p] \notin {"idle", "bypass"} => log.why[p] = "none"
    /\ rst[p] = "closed" =>
         /\ rec[p].sets = (IF DrainedClean(rec[p]) THEN 1 ELSE 0)
         /\ lpc[p] = "munlock" => (tRw[p] = hold[p].e /\ ent[tRw[p]].wp)
         /\ lpc[p] = "ret" => hold[p] = NoHold

\* C18: while the interceptor is disabled every request that starts is a
\* pure passthrough, and Enable / Disable calls do not change what a
\* request already past its disabled test does.
C18_DisableFrame ==
  [](InFlightUnaffected) /\ [][DisabledStartIsPassthrough]_vars

\* request 2 was passed through while disabled, and request 1, which had
\* started enabled, committed at Close and released its hold with the
\* interceptor disabled
C18_Witness ==
  /\ disabled
  /\ log.why[2] = "disabled" /\ rst[2] = "bypass"
  /\ rst[1] = "closed" /\ rec[1].sets = 1 /\ cache[lkey[1]].ok
  /\ lpc[1] = "ret" /\ hold[1] = NoHold

\* C19: the entry a release re-resolves through getKeyLock is the entry
\* whose count the caller incremented and whose mutex it holds, so the
\* release decrements and unlocks that entry and the runtime never reports
\* an unlock of an unlocked mutex.
C19_ReleaseOnOwnEntry ==
  /\ ~crashed
  /\ \A p \in Procs :
       (lop[p] \in {"RUnlock", "Unlock"} /\ lpc[p] \in {"add", "cas0", "del", "munlock"})
         => tRw[p] = hold[p].e

\* C20: a request that returns a cached cursor, a bypass result or the
\* execution error has released what it acquired (its release works on the
\* entry it locked, and after it the request holds nothing); a bypass never
\* touched the lock; a hit at the re-check did not call the execution
\* path; a request that returned a live stream holds the write lock of the
\* entry stored under its key, and keeps it until Close is called.
C20_HoldBalance ==
  \A p \in Requests :
    /\ rst[p] = "bypass" => (lop[p] = "none" /\ hold[p] = NoHold)
    /\ rst[p] \in {"hit1", "hit2", "execerr"} =>
         /\ lpc[p] = "munlock" => tRw[p] = hold[p].e
         /\ lpc[p] = "ret" => hold[p] = NoHold
    /\ rst[p] = "hit2" => log.execs[p] = 0
    /\ rst[p] = "stream" =>
         /\ lpc[p] = "ret" /\ hold[p].mode = "W"
         /\ ent[hold[p].e].wp /\ keyLock[lkey[p]] = hold[p].e

====
